---- MODULE Spec2Model ----
(***************************************************************************)
(* Task Manager front end (src/Frontend/src/App.tsx): the App component's  *)
(* state (tasks, newTask, loading, filter), its two effects (cache read +  *)
(* remote list on mount, cache write on every change of tasks) and its     *)
(* three asynchronous handlers.  A handler is a closure of the render in   *)
(* which it was created: the `tasks` it reads after its await is the value *)
(* of that render, kept here as the field `snap` of the call in flight.    *)
(***************************************************************************)
EXTENDS Integers, Sequences, FiniteSets, TLC

\* ---------------------------------------------------------------- bounds
\* Remote calls issued in one session, the startup list call included.
MaxCalls == 3

\* ------------------------------------------------------------ text values
\* A text is a sequence of one-character strings.
Space == " "
NoText == <<>>

\* What the user may type into the input (App.tsx:97).
InputValues == { <<>>, <<" ">>, <<" ", "a", " ">> }

\* A check of the raw text, with the trim forgotten.
trimForgotten(s) == s

RECURSIVE trimStart(_)
trimStart(s) == IF s # <<>> /\ Head(s) = Space THEN trimStart(Tail(s)) ELSE s

RECURSIVE trimEnd(_)
trimEnd(s) ==
    IF s # <<>> /\ s[Len(s)] = Space THEN trimEnd(SubSeq(s, 1, Len(s) - 1)) ELSE s

\* String.prototype.trim
trimmed(s) == trimEnd(trimStart(s))

\* newTask.trim()  (App.tsx:40, 104)
trim(s) == trimmed(s)

\* ------------------------------------------------------------------ tasks
Task(i, d, c) == [id |-> i, description |-> d, isCompleted |-> c]

\* Ids are written with one digit in the serialized form.
Digits == <<"1", "2", "3", "4", "5", "6", "7", "8", "9">>

IsDigit(ch) == \E k \in 1..Len(Digits) : Digits[k] = ch

DigitValue(ch) == CHOOSE k \in 1..Len(Digits) : Digits[k] = ch

\* JSON.stringify of one task: {<id>"<description>"<t|f>}
StringifyTask(t) ==
    <<"{", Digits[t.id], "\"">> \o t.description
        \o <<"\"", IF t.isCompleted THEN "t" ELSE "f", "}">>

RECURSIVE StringifyItems(_)
StringifyItems(ts) ==
    IF ts = <<>> THEN <<>>
    ELSE IF Len(ts) = 1 THEN StringifyTask(ts[1])
    ELSE StringifyTask(ts[1]) \o <<",">> \o StringifyItems(Tail(ts))

\* JSON.stringify(tasks): [item,item,...]
JSONstringify(ts) == <<"[">> \o StringifyItems(ts) \o <<"]">>

\* Position of the first `ch` in s at or after position i, 0 when there is none.
RECURSIVE IndexFrom(_, _, _)
IndexFrom(s, ch, i) ==
    IF i > Len(s) THEN 0
    ELSE IF s[i] = ch THEN i
    ELSE IndexFrom(s, ch, i + 1)

ParseFail == [ok |-> FALSE, val |-> <<>>, next |-> 0]

\* One task read at position i of s; next is the position after its "}".
ParseTask(s, i) ==
    IF ~(i + 2 <= Len(s) /\ s[i] = "{" /\ IsDigit(s[i + 1]) /\ s[i + 2] = "\"")
    THEN ParseFail
    ELSE LET q == IndexFrom(s, "\"", i + 3) IN
         IF q = 0 \/ q + 2 > Len(s) THEN ParseFail
         ELSE IF s[q + 1] \notin {"t", "f"} \/ s[q + 2] # "}" THEN ParseFail
         ELSE [ok   |-> TRUE,
               val  |-> <<Task(DigitValue(s[i + 1]),
                               SubSeq(s, i + 3, q - 1),
                               s[q + 1] = "t")>>,
               next |-> q + 3]

\* Items from position i on, up to the closing "]" that ends the text.
RECURSIVE ParseItems(_, _, _)
ParseItems(s, i, acc) ==
    LET r == ParseTask(s, i) IN
    IF ~r.ok \/ r.next > Len(s) THEN ParseFail
    ELSE IF s[r.next] = "]"
         THEN IF r.next = Len(s)
              THEN [ok |-> TRUE, val |-> acc \o r.val, next |-> r.next + 1]
              ELSE ParseFail
    ELSE IF s[r.next] = ","
         THEN ParseItems(s, r.next + 1, acc \o r.val)
    ELSE ParseFail

ParseResult(s) ==
    IF Len(s) < 2 \/ s[1] # "[" THEN ParseFail
    ELSE IF s[2] = "]"
         THEN IF Len(s) = 2 THEN [ok |-> TRUE, val |-> <<>>, next |-> 3]
              ELSE ParseFail
    ELSE ParseItems(s, 2, <<>>)

\* JSON.parse throws a SyntaxError on s
ParseThrows(s) == ~ParseResult(s).ok

\* A parse that loses the completion flag.
parseDroppingCompletion(s) ==
    LET ts == ParseResult(s).val IN
    [k \in 1..Len(ts) |-> [ts[k] EXCEPT !.isCompleted = FALSE]]

\* JSON.parse(s) when it does not throw
JSONparse(s) == ParseResult(s).val

\* ------------------------------------------------------------------ state
VARIABLES
    tasks,      \* useState<Task[]>([])                       App.tsx:9
    newTask,    \* useState('')                               App.tsx:10
    loading,    \* useState(false): the spec's `pending`      App.tsx:11
    filter,     \* useState<FilterType>('all')                App.tsx:12
    storage,    \* localStorage item 'tasks'
    status,     \* "unmounted", "mounted" or "crashed"
    calls,      \* remote calls in flight, in the order they were issued
    issued,     \* number of remote calls issued so far
    server,     \* the remote service's task list
    nextId,     \* the id the remote service assigns next
    last,       \* the client's latest step and the state it was taken in
    bootCache,  \* what localStorage held when the session started
    settled     \* the list the startup call delivered, and whether a call failed

vars == <<tasks, newTask, loading, filter, storage, status, calls, issued,
          server, nextId, last, bootCache, settled>>

Filters == {"all", "active", "completed"}

\* localStorage.getItem result: null (absent) or a text
Absent == [present |-> FALSE, text |-> NoText]

Stored(text) == [present |-> TRUE, text |-> text]

\* `if (saved)`: null and the empty string are falsy
Truthy(saved) == saved.present /\ saved.text # NoText

\* Task lists the remote service or an earlier session's cache may hold.
T1 == Task(1, <<"a">>, FALSE)
T2 == Task(2, <<"b">>, TRUE)

ServerInits == { <<T2>>, <<T1, T2>> }

CachedInits == { <<>>, <<T1, T2>> }

\* Texts no JSON.stringify produced (a truncated write, a foreign value).
MalformedTexts == { <<"[", "{", "1", "\"">>, <<"x">> }

StorageInits ==
    {Absent, Stored(NoText)}
        \cup {Stored(JSONstringify(ts)) : ts \in CachedInits}
        \cup {Stored(m) : m \in MalformedTexts}

Ids(ts) == {ts[k].id : k \in 1..Len(ts)}

InitIds == UNION {Ids(ts) : ts \in ServerInits \cup CachedInits}

\* The first id the remote service has not used yet.
FirstFreshId == 1 + CHOOSE m \in InitIds : \A x \in InitIds : x <= m

\* A remote call in flight.  snap is the `tasks` of the render whose handler
\* issued it; overtaken lists the calls that resolved successfully since.
Call(kind, id, description, isCompleted, snap) ==
    [kind |-> kind, id |-> id, description |-> description,
     isCompleted |-> isCompleted, snap |-> snap,
     phase |-> "sent", resp |-> <<>>, overtaken |-> <<>>]

NoCall == Call("none", 0, NoText, FALSE, <<>>)

Pre == [tasks |-> tasks, storage |-> storage, loading |-> loading,
        filter |-> filter, issued |-> issued]

Step(ev, call) == [ev |-> ev, call |-> call, pre |-> Pre]

Init ==
    /\ tasks = <<>>
    /\ newTask = NoText
    /\ loading = FALSE
    /\ filter = "all"
    /\ storage \in StorageInits
    /\ status = "unmounted"
    /\ calls = <<>>
    /\ issued = 0
    /\ server \in ServerInits
    /\ nextId = FirstFreshId
    /\ bootCache = storage
    /\ settled = [loaded |-> <<>>, failed |-> FALSE]
    /\ last = [ev |-> "init", call |-> NoCall,
               pre |-> [tasks |-> <<>>, storage |-> storage, loading |-> FALSE,
                        filter |-> "all", issued |-> 0]]

\* ---------------------------------------------------------------- helpers
RemoveAt(s, i) == SubSeq(s, 1, i - 1) \o SubSeq(s, i + 1, Len(s))

\* Save effect (App.tsx:24-27): runs after every render in which tasks changed.
saveEffect(ts) == Stored(JSONstringify(ts))

\* A filter whose 'active' branch lets every task through.
filteredTasksActiveAll(ts, f) ==
    LET keep(t) == IF f = "completed" THEN t.isCompleted ELSE TRUE
    IN SelectSeq(ts, keep)

\* filteredTasks (App.tsx:72-76)
filteredTasks(ts, f) ==
    LET keep(t) == IF f = "active" THEN ~t.isCompleted
                   ELSE IF f = "completed" THEN t.isCompleted
                   ELSE TRUE
    IN SelectSeq(ts, keep)

\* Counts in which `completed` counts every task.
statsCountingAll(ts) ==
    LET active(t) == ~t.isCompleted
    IN [total     |-> Len(ts),
        active    |-> Len(SelectSeq(ts, active)),
        completed |-> Len(ts)]

\* stats (App.tsx:78-82)
stats(ts) ==
    LET active(t) == ~t.isCompleted
        completed(t) == t.isCompleted
    IN [total     |-> Len(ts),
        active    |-> Len(SelectSeq(ts, active)),
        completed |-> Len(SelectSeq(ts, completed))]

\* A resolved call as the calls still in flight remember it.
Resolved(c) == [kind |-> c.kind, id |-> c.id, resp |-> c.resp]

\* calls without the one at position i, each noting that c resolved with success
Overtake(i, c) ==
    LET rest == RemoveAt(calls, i) IN
    [k \in 1..Len(rest) |->
        [rest[k] EXCEPT !.overtaken = Append(@, Resolved(c))]]

\* --------------------------------------------------- pure parts of handlers
\* A button that forgets the loading flag.
submitDisabledIgnoringLoading(ld, text) == trim(text) = NoText

\* The add button's `disabled` attribute (App.tsx:104).  The text input is
\* disabled while loading (App.tsx:99), so the button is the form's only way in.
submitDisabled(ld, text) == ld \/ trim(text) = NoText

\* A load that keeps the entries the remote list does not know.
mergeKeepingLocal(current, data) ==
    LET unknown(t) == t.id \notin {data[k].id : k \in 1..Len(data)}
    IN data \o SelectSeq(current, unknown)

\* A load that appends the remote list to what is there.
appendLoaded(current, data) == current \o data

\* setTasks(data)  (App.tsx:32)
replaceWholesale(current, data) == data

\* setTasks([...tasks, task])  (App.tsx:45)
appendCreated(snap, task) == Append(snap, task)

\* setTasks(tasks.map(t => t.id === task.id ? updated : t))  (App.tsx:57)
replaceUpdated(snap, id, updated) ==
    [k \in 1..Len(snap) |-> IF snap[k].id = id THEN updated ELSE snap[k]]

\* setTasks(tasks.filter(t => t.id !== id))  (App.tsx:66)
removeDeleted(snap, id) ==
    LET keep(t) == t.id # id IN SelectSeq(snap, keep)

\* ------------------------------------------------------------------ mount
\* Both effects of the first render (App.tsx:14-27).  JSON.parse throwing inside
\* the first effect leaves the effect: loadTasks() is not reached, the save
\* effect of the same component is skipped and React unmounts the tree.
Mount ==
    /\ status = "unmounted"
    /\ LET saved == storage IN
       IF Truthy(saved) /\ ParseThrows(saved.text)
       THEN /\ status' = "crashed"
            /\ last' = Step("mount", NoCall)
            /\ UNCHANGED <<tasks, storage, calls, issued>>
       ELSE LET loaded == IF Truthy(saved) THEN JSONparse(saved.text) ELSE tasks
                c == Call("list", 0, NoText, FALSE, <<>>)
            IN /\ tasks' = loaded
               /\ storage' = saveEffect(loaded)
               /\ calls' = Append(calls, c)
               /\ issued' = issued + 1
               /\ status' = "mounted"
               /\ last' = Step("mount", c)
    /\ UNCHANGED <<newTask, loading, filter, server, nextId, bootCache, settled>>

\* ------------------------------------------------------------ view intents
\* onChange of the text input (App.tsx:97); the input is disabled while loading.
ChangeNewTask(v) ==
    /\ status = "mounted"
    /\ ~loading
    /\ v # newTask
    /\ newTask' = v
    /\ last' = Step("changeNewTask", NoCall)
    /\ UNCHANGED <<tasks, loading, filter, storage, status, calls, issued,
                   server, nextId, bootCache, settled>>

\* A filter button that stores the filtered list as the collection.
SetFilterDestructive(f) ==
    /\ status = "mounted"
    /\ filter' = f
    /\ tasks' = filteredTasks(tasks, f)
    /\ storage' = saveEffect(tasks')
    /\ last' = Step("setFilter", NoCall)
    /\ UNCHANGED <<newTask, loading, status, calls, issued, server, nextId, bootCache, settled>>

\* onClick of a filter button (App.tsx:116-139)
SetFilter(f) ==
    /\ status = "mounted"
    /\ filter' = f
    /\ last' = Step("setFilter", NoCall)
    /\ UNCHANGED <<tasks, newTask, loading, storage, status, calls, issued,
                   server, nextId, bootCache, settled>>

\* The user's attempt to submit the form.  A disabled button submits nothing;
\* otherwise handleAddTask runs up to its await (App.tsx:38-44).
SubmitAddTask ==
    /\ status = "mounted"
    /\ IF submitDisabled(loading, newTask)
       THEN /\ last' = Step("submitAddTask", NoCall)
            /\ UNCHANGED <<loading, calls, issued>>
       ELSE IF trim(newTask) = NoText
       THEN /\ last' = Step("submitAddTask", NoCall)
            /\ UNCHANGED <<loading, calls, issued>>
       ELSE LET c == Call("create", 0, newTask, FALSE, tasks) IN
            /\ issued < MaxCalls
            /\ loading' = TRUE
            /\ calls' = Append(calls, c)
            /\ issued' = issued + 1
            /\ last' = Step("submitAddTask", c)
    /\ UNCHANGED <<tasks, newTask, filter, storage, status, server, nextId, bootCache, settled>>

\* onChange of a rendered task's checkbox: handleToggleComplete up to its await
\* (App.tsx:54-56, 168).
ToggleComplete(k) ==
    /\ status = "mounted"
    /\ issued < MaxCalls
    /\ k \in 1..Len(filteredTasks(tasks, filter))
    /\ LET task == filteredTasks(tasks, filter)[k]
           c == Call("update", task.id, task.description, ~task.isCompleted, tasks)
       IN /\ calls' = Append(calls, c)
          /\ last' = Step("toggle", c)
    /\ issued' = issued + 1
    /\ UNCHANGED <<tasks, newTask, loading, filter, storage, status, server, nextId, bootCache, settled>>

\* onClick of a rendered task's delete button: handleDeleteTask up to its await
\* (App.tsx:63-65, 177).
DeleteTask(k) ==
    /\ status = "mounted"
    /\ issued < MaxCalls
    /\ k \in 1..Len(filteredTasks(tasks, filter))
    /\ LET task == filteredTasks(tasks, filter)[k]
           c == Call("delete", task.id, NoText, FALSE, tasks)
       IN /\ calls' = Append(calls, c)
          /\ last' = Step("delete", c)
    /\ issued' = issued + 1
    /\ UNCHANGED <<tasks, newTask, loading, filter, storage, status, server, nextId, bootCache, settled>>

\* ---------------------------------------------------------- remote service
\* The service behind ./api: list, create, update, delete.
serverResponse(c) ==
    IF c.kind = "list" THEN [ok |-> TRUE, resp |-> server]
    ELSE IF c.kind = "create"
    THEN [ok |-> TRUE, resp |-> <<Task(nextId, c.description, FALSE)>>]
    ELSE IF c.kind = "update"
    THEN [ok |-> c.id \in Ids(server),
          resp |-> IF c.id \in Ids(server)
                   THEN <<Task(c.id, c.description, c.isCompleted)>> ELSE <<>>]
    ELSE [ok |-> c.id \in Ids(server), resp |-> <<>>]

serverAfter(c) ==
    IF c.kind = "create" THEN Append(server, Task(nextId, c.description, FALSE))
    ELSE IF c.kind = "update"
    THEN replaceUpdated(server, c.id, Task(c.id, c.description, c.isCompleted))
    ELSE IF c.kind = "delete" THEN removeDeleted(server, c.id)
    ELSE server

\* The service handles the request of the call at position i.
ServerHandle(i) ==
    /\ i \in 1..Len(calls)
    /\ calls[i].phase = "sent"
    /\ LET c == calls[i]
           r == serverResponse(c)
       IN /\ calls' = [calls EXCEPT ![i].phase = IF r.ok THEN "ok" ELSE "err",
                                    ![i].resp = r.resp]
          /\ server' = serverAfter(c)
          /\ nextId' = IF c.kind = "create" THEN nextId + 1 ELSE nextId
    /\ UNCHANGED <<tasks, newTask, loading, filter, storage, status, issued, last, bootCache, settled>>

\* The request or the response of the call at position i is lost.
NetworkError(i) ==
    /\ i \in 1..Len(calls)
    /\ calls[i].phase \in {"sent", "ok"}
    /\ calls' = [calls EXCEPT ![i].phase = "err", ![i].resp = <<>>]
    /\ UNCHANGED <<tasks, newTask, loading, filter, storage, status, issued,
                   server, nextId, last, bootCache, settled>>

Awaiting(i, kind, phase) ==
    /\ status = "mounted"
    /\ i \in 1..Len(calls)
    /\ calls[i].kind = kind
    /\ calls[i].phase = phase

\* ------------------------------------------------- handlers after the await
\* loadTasks, getTasks() resolved (App.tsx:31-32)
LoadTasksOk(i) ==
    /\ Awaiting(i, "list", "ok")
    /\ tasks' = replaceWholesale(tasks, calls[i].resp)
    /\ storage' = saveEffect(tasks')
    /\ calls' = Overtake(i, calls[i])
    /\ last' = Step("loadOk", calls[i])
    /\ settled' = [settled EXCEPT !.loaded = <<calls[i].resp>>]
    /\ UNCHANGED <<newTask, loading, filter, status, issued, server, nextId, bootCache>>

\* loadTasks, getTasks() rejected (App.tsx:33-35)
LoadTasksFailed(i) ==
    /\ Awaiting(i, "list", "err")
    /\ calls' = RemoveAt(calls, i)
    /\ last' = Step("loadFailed", calls[i])
    /\ settled' = [settled EXCEPT !.failed = TRUE]
    /\ UNCHANGED <<tasks, newTask, loading, filter, storage, status, issued,
                   server, nextId, bootCache>>

\* handleAddTask, createTask() resolved (App.tsx:44-46, 49-51)
AddTaskOk(i) ==
    /\ Awaiting(i, "create", "ok")
    /\ tasks' = appendCreated(calls[i].snap, calls[i].resp[1])
    /\ newTask' = NoText
    /\ loading' = FALSE
    /\ storage' = saveEffect(tasks')
    /\ calls' = Overtake(i, calls[i])
    /\ last' = Step("addOk", calls[i])
    /\ UNCHANGED <<filter, status, issued, server, nextId, bootCache, settled>>

\* A handler whose failure path leaves the flag alone.
loadingStuck(ld) == ld

\* setLoading(false) of the finally block (App.tsx:49-51)
loadingAfterFailure(ld) == FALSE

\* handleAddTask, createTask() rejected (App.tsx:47-51)
AddTaskFailed(i) ==
    /\ Awaiting(i, "create", "err")
    /\ loading' = loadingAfterFailure(loading)
    /\ calls' = RemoveAt(calls, i)
    /\ last' = Step("addFailed", calls[i])
    /\ settled' = [settled EXCEPT !.failed = TRUE]
    /\ UNCHANGED <<tasks, newTask, filter, storage, status, issued, server, nextId, bootCache>>

\* A toggle after which the save effect does not run.
ToggleOkNoSave(i) ==
    /\ Awaiting(i, "update", "ok")
    /\ tasks' = replaceUpdated(calls[i].snap, calls[i].id, calls[i].resp[1])
    /\ calls' = Overtake(i, calls[i])
    /\ last' = Step("toggleOk", calls[i])
    /\ UNCHANGED <<newTask, loading, filter, storage, status, issued, server,
                   nextId, bootCache, settled>>

\* handleToggleComplete, updateTask() resolved (App.tsx:56-57)
ToggleOk(i) ==
    /\ Awaiting(i, "update", "ok")
    /\ tasks' = replaceUpdated(calls[i].snap, calls[i].id, calls[i].resp[1])
    /\ storage' = saveEffect(tasks')
    /\ calls' = Overtake(i, calls[i])
    /\ last' = Step("toggleOk", calls[i])
    /\ UNCHANGED <<newTask, loading, filter, status, issued, server, nextId, bootCache, settled>>

\* handleToggleComplete, updateTask() rejected (App.tsx:58-60)
ToggleFailed(i) ==
    /\ Awaiting(i, "update", "err")
    /\ calls' = RemoveAt(calls, i)
    /\ last' = Step("toggleFailed", calls[i])
    /\ settled' = [settled EXCEPT !.failed = TRUE]
    /\ UNCHANGED <<tasks, newTask, loading, filter, storage, status, issued,
                   server, nextId, bootCache>>

\* handleDeleteTask, deleteTask() resolved (App.tsx:65-66)
DeleteOk(i) ==
    /\ Awaiting(i, "delete", "ok")
    /\ tasks' = removeDeleted(calls[i].snap, calls[i].id)
    /\ storage' = saveEffect(tasks')
    /\ calls' = Overtake(i, calls[i])
    /\ last' = Step("deleteOk", calls[i])
    /\ UNCHANGED <<newTask, loading, filter, status, issued, server, nextId, bootCache, settled>>

\* A delete that removes the entry although the call was rejected.
DeleteFailedRemoving(i) ==
    /\ Awaiting(i, "delete", "err")
    /\ tasks' = removeDeleted(calls[i].snap, calls[i].id)
    /\ storage' = saveEffect(tasks')
    /\ calls' = RemoveAt(calls, i)
    /\ last' = Step("deleteFailed", calls[i])
    /\ settled' = [settled EXCEPT !.failed = TRUE]
    /\ UNCHANGED <<newTask, loading, filter, status, issued, server, nextId, bootCache>>

\* handleDeleteTask, deleteTask() rejected (App.tsx:67-69)
DeleteFailed(i) ==
    /\ Awaiting(i, "delete", "err")
    /\ calls' = RemoveAt(calls, i)
    /\ last' = Step("deleteFailed", calls[i])
    /\ settled' = [settled EXCEPT !.failed = TRUE]
    /\ UNCHANGED <<tasks, newTask, loading, filter, storage, status, issued,
                   server, nextId, bootCache>>

\* ----------------------------------------------------------- specification
Slots == 1..MaxCalls

Next ==
    \/ Mount
    \/ \E v \in InputValues : ChangeNewTask(v)
    \/ \E f \in Filters : SetFilter(f)
    \/ SubmitAddTask
    \/ \E k \in Slots : ToggleComplete(k)
    \/ \E k \in Slots : DeleteTask(k)
    \/ \E i \in Slots : ServerHandle(i)
    \/ \E i \in Slots : NetworkError(i)
    \/ \E i \in Slots : LoadTasksOk(i)
    \/ \E i \in Slots : LoadTasksFailed(i)
    \/ \E i \in Slots : AddTaskOk(i)
    \/ \E i \in Slots : AddTaskFailed(i)
    \/ \E i \in Slots : ToggleOk(i)
    \/ \E i \in Slots : ToggleFailed(i)
    \/ \E i \in Slots : DeleteOk(i)
    \/ \E i \in Slots : DeleteFailed(i)

Spec == Init /\ [][Next]_vars

\* Every create call that is in flight resolves: the service answers it or the
\* network fails it, and the handler's continuation then runs.
ResolveCreate ==
    \E i \in Slots :
        /\ i \in 1..Len(calls)
        /\ calls[i].kind = "create"
        /\ (ServerHandle(i) \/ AddTaskOk(i) \/ AddTaskFailed(i))

LiveSpec == Spec /\ WF_vars(ResolveCreate)

\* ------------------------------------------------------------------ claims
CreatesInFlight == {i \in 1..Len(calls) : calls[i].kind = "create"}

\* The effect of a successfully resolved toggle or delete r is visible in ts.
Reflects(r, ts) ==
    IF r.kind = "delete" THEN r.id \notin Ids(ts)
    ELSE \E k \in 1..Len(ts) : ts[k] = r.resp[1]

IsMutation(r) == r.kind \in {"update", "delete"}

\* C1: when a toggle or delete of id A and a toggle or delete of another id B
\* are both in flight together and both succeed, tasks shows both effects once
\* the second has resolved.
C1_ConcurrentDifferentIds ==
    (/\ last.ev \in {"toggleOk", "deleteOk"}
     /\ Len(last.call.overtaken) = 1
     /\ IsMutation(last.call.overtaken[1])
     /\ last.call.overtaken[1].id # last.call.id)
        => /\ Reflects(Resolved(last.call), tasks)
           /\ Reflects(last.call.overtaken[1], tasks)

\* C2: at most one remote create call is in flight in every reachable state.
C2_AtMostOneCreateInFlight == Cardinality(CreatesInFlight) <= 1

C2_Witness ==
    /\ Cardinality(CreatesInFlight) = 1
    /\ last.ev = "submitAddTask"
    /\ last.pre.loading

\* C3: an attempt to add while loading is true issues no remote call and leaves
\* tasks and loading as they were; with no call issued for it, nothing can be
\* appended for it later.
C3_AddWhilePendingIsNoOp ==
    (last.ev = "submitAddTask" /\ last.pre.loading)
        => /\ issued = last.pre.issued
           /\ last.call = NoCall
           /\ tasks = last.pre.tasks
           /\ Len(tasks) = Len(last.pre.tasks)
           /\ loading = last.pre.loading
           /\ storage = last.pre.storage

C3_Witness ==
    /\ last.ev = "submitAddTask"
    /\ last.pre.loading
    /\ trim(newTask) # NoText
    /\ \E i \in CreatesInFlight : calls[i].phase = "ok"

MalformedBoot == Truthy(bootCache) /\ ParseThrows(bootCache.text)

\* C4: with a cached text that cannot be parsed, mounting leaves tasks empty and
\* still issues the remote list request, whose result then becomes tasks.
C4_MalformedCacheIsAbsent ==
    (last.ev = "mount" /\ MalformedBoot)
        => /\ tasks = <<>>
           /\ status = "mounted"
           /\ \E i \in 1..Len(calls) : calls[i].kind = "list"

\* C5: right after the startup list call resolved with success, tasks is the
\* returned sequence, element for element.
C5_LoadReplacesWholesale ==
    last.ev = "loadOk" => tasks = last.call.resp

C5_Witness ==
    /\ last.ev = "loadOk"
    /\ \E t \in Ids(last.pre.tasks) : t >= FirstFreshId /\ t \notin Ids(tasks)

\* C6: started on the serialization of a collection C, with the list call
\* failing and nothing else issued, the session settles with tasks = C and the
\* cache still holding C's serialization; the failure changes nothing.
C6_CacheRoundTrip ==
    (/\ last.ev = "loadFailed"
     /\ issued = 1
     /\ \E C \in CachedInits : bootCache = Stored(JSONstringify(C)))
        => /\ \E C \in CachedInits :
                bootCache = Stored(JSONstringify(C)) /\ tasks = C
           /\ storage = bootCache
           /\ tasks = last.pre.tasks
           /\ loading = last.pre.loading
           /\ filter = last.pre.filter

C6_Witness ==
    /\ last.ev = "loadFailed"
    /\ issued = 1
    /\ bootCache = Stored(JSONstringify(<<T1, T2>>))
    /\ tasks = <<T1, T2>>

\* C7: when the create, update or delete call fails, tasks and the cache are
\* what they were just before, and no further call is issued.
C7_FailureDropsMutation ==
    last.ev \in {"addFailed", "toggleFailed", "deleteFailed"}
        => /\ tasks = last.pre.tasks
           /\ storage = last.pre.storage
           /\ issued = last.pre.issued

C7_Witness ==
    /\ last.ev = "deleteFailed"
    /\ last.call.id \in Ids(tasks)
    /\ tasks # <<>>

\* C8: loading is true exactly while a create call is in flight, and, every
\* create call resolving, a state with loading true is followed by one with
\* loading false.
C8_PendingResets ==
    /\ [](loading <=> CreatesInFlight # {})
    /\ (loading ~> ~loading)

C8_Witness ==
    /\ last.ev = "addFailed"
    /\ ~loading

\* C9: when the create call succeeds, tasks is the collection as it was just
\* before the resolution with the returned task appended.
C9_AppendsToCurrent ==
    last.ev = "addOk" => tasks = Append(last.pre.tasks, last.call.resp[1])

\* C10: when the update call succeeds, tasks differs from what it was just
\* before the resolution only in the entry with the toggled id, which becomes
\* the returned task.
C10_ToggleChangesOnlyItsEntry ==
    last.ev = "toggleOk"
        => /\ Len(tasks) = Len(last.pre.tasks)
           /\ \A k \in 1..Len(last.pre.tasks) :
                tasks[k] = IF last.pre.tasks[k].id = last.call.id
                           THEN last.call.resp[1]
                           ELSE last.pre.tasks[k]

\* C11: when the delete call succeeds, tasks is what it was just before the
\* resolution without the entry of the deleted id: the other entries are
\* there, unchanged and in order, nothing is added, and with no such entry
\* tasks is unchanged.
C11_DeleteRemovesOnlyItsEntry ==
    last.ev = "deleteOk"
        => LET other(t) == t.id # last.call.id
           IN tasks = SelectSeq(last.pre.tasks, other)

IsBlank(s) == \A k \in 1..Len(s) : s[k] = Space

\* C12: an attempt to add with an empty or white-space-only text issues no
\* create call, leaves loading false and leaves tasks and the cache unchanged.
C12_BlankNeverReachesRemote ==
    /\ (last.ev = "submitAddTask" /\ IsBlank(newTask))
         => /\ last.call = NoCall
            /\ issued = last.pre.issued
            /\ ~last.pre.loading
            /\ ~loading
            /\ tasks = last.pre.tasks
            /\ storage = last.pre.storage
    /\ \A i \in CreatesInFlight : ~IsBlank(calls[i].description)

C12_Witness ==
    /\ last.ev = "submitAddTask"
    /\ newTask = <<Space>>
    /\ issued < MaxCalls

\* C13: a filter change leaves tasks, loading and the cache as they were and
\* issues no remote call, also while remote calls are in flight.
C13_SetFilterChangesOnlyFilter ==
    last.ev = "setFilter"
        => /\ tasks = last.pre.tasks
           /\ loading = last.pre.loading
           /\ storage = last.pre.storage
           /\ issued = last.pre.issued

C13_Witness ==
    /\ last.ev = "setFilter"
    /\ filter = "completed"
    /\ last.pre.filter = "all"
    /\ filteredTasks(tasks, filter) # tasks
    /\ calls # <<>>

\* C14: the derived counts satisfy total = active + completed and total is the
\* length of tasks.
C14_StatsConsistent ==
    /\ stats(tasks).total = stats(tasks).active + stats(tasks).completed
    /\ stats(tasks).total = Len(tasks)

C14_Witness ==
    /\ stats(tasks).active >= 1
    /\ stats(tasks).completed >= 2

\* C15: the ids shown under 'active' and the ids shown under 'completed' are
\* disjoint and together are all the ids of tasks.
C15_FilterPartition ==
    /\ Ids(filteredTasks(tasks, "active"))
         \cap Ids(filteredTasks(tasks, "completed")) = {}
    /\ Ids(filteredTasks(tasks, "active"))
         \cup Ids(filteredTasks(tasks, "completed")) = Ids(tasks)

C15_Witness ==
    /\ Ids(filteredTasks(tasks, "active")) # {}
    /\ Ids(filteredTasks(tasks, "completed")) # {}
    /\ Len(tasks) = 3

\* C16: while the component is mounted the cache is the serialization of the
\* current tasks, and reading it back gives tasks: every step that changes
\* tasks has rewritten the cache before the next step.
C16_CacheFollowsTasks ==
    status = "mounted"
        => /\ storage = Stored(JSONstringify(tasks))
           /\ ~ParseThrows(storage.text)
           /\ JSONparse(storage.text) = tasks

C16_Witness ==
    /\ last.ev \in {"loadOk", "addOk", "toggleOk", "deleteOk"}
    /\ tasks # last.pre.tasks
    /\ storage # last.pre.storage
    /\ calls # <<>>

\* C17: no two entries of tasks have the same id.
C17_IdsUnique == Cardinality(Ids(tasks)) = Len(tasks)

C17_Witness ==
    /\ last.ev = "addOk"
    /\ last.call.overtaken # <<>>
    /\ Len(tasks) = 3

\* C18: an id whose delete call succeeded and whose entry was gone from tasks
\* is not put back by the resolution of an add, toggle or delete call that was
\* in flight when the delete resolved (stated for a call about another id,
\* the races on one id being left open).
C18_DeletedStaysDeleted ==
    last.ev \in {"addOk", "toggleOk", "deleteOk"}
        => \A k \in 1..Len(last.call.overtaken) :
              (/\ last.call.overtaken[k].kind = "delete"
               /\ last.call.overtaken[k].id # last.call.id
               /\ last.call.overtaken[k].id \notin Ids(last.pre.tasks))
                 => last.call.overtaken[k].id \notin Ids(tasks)

\* Ids that were in tasks only because the cache held them: the startup list
\* the service delivered does not have them.
CacheOnlyIds ==
    IF settled.loaded = <<>> \/ ~Truthy(bootCache) \/ ParseThrows(bootCache.text)
    THEN {}
    ELSE Ids(JSONparse(bootCache.text)) \ Ids(settled.loaded[1])

\* C19: once the startup list call has resolved with success, no task that the
\* cache held and the delivered list does not is in tasks.
C19_RemoteSupersedesCache == \A id \in CacheOnlyIds : id \notin Ids(tasks)

IdFlags(ts) == {<<ts[k].id, ts[k].isCompleted>> : k \in 1..Len(ts)}

\* C20: with the startup list call and every create, update and delete call
\* resolved with success and none in flight, tasks holds exactly the tasks of
\* the remote service, each with the service's completion flag.
C20_ConvergesToRemote ==
    (/\ status = "mounted"
     /\ calls = <<>>
     /\ settled.loaded # <<>>
     /\ ~settled.failed)
        => /\ IdFlags(tasks) = IdFlags(server)
           /\ Len(tasks) = Len(server)

====
